---- MODULE Spec2Model ----
(***************************************************************************)
(* GL33CG @Track TCP gateway: src/src/server.ts (GL33CGTcpServer),         *)
(* src/src/utils/protocolParser.ts (ProtocolParser) and the in-memory part *)
(* of src/src/services/dataManager.ts (DataManager).                       *)
(*                                                                         *)
(* Texts are sequences of one-character strings.  One action of the model  *)
(* is one macrotask of the Node.js event loop: the event's listeners run   *)
(* synchronously in registration order and every continuation that becomes *)
(* runnable without I/O (an await on an already settled promise) runs in   *)
(* the same action.  A database call is real I/O: the handler awaiting it  *)
(* stays suspended until the action DbReturn delivers its outcome.         *)
(***************************************************************************)
EXTENDS Integers, Sequences, FiniteSets, TLC

(***************************************************************************)
(* Bounds                                                                  *)
(***************************************************************************)
NumConns == 2
MaxData == 2
maxConnections == 1

Conns == 1..NumConns
ClientIds == {"p1", "p2"}
\* Map.get of an absent key (undefined); connections are numbered from 1
NoConn == 0

(***************************************************************************)
(* Text primitives (JavaScript String methods used by the source)          *)
(***************************************************************************)
WS == {" ", "\n", "\r"}

RECURSIVE TrimStart(_)
TrimStart(s) ==
  IF s # <<>> /\ Head(s) \in WS THEN TrimStart(Tail(s)) ELSE s

RECURSIVE TrimEnd(_)
TrimEnd(s) ==
  IF s # <<>> /\ s[Len(s)] \in WS THEN TrimEnd(SubSeq(s, 1, Len(s) - 1)) ELSE s

Trim(s) == TrimEnd(TrimStart(s))

StartsWith(s, p) == Len(p) <= Len(s) /\ SubSeq(s, 1, Len(p)) = p

EndsWith(s, p) ==
  Len(p) <= Len(s) /\ SubSeq(s, Len(s) - Len(p) + 1, Len(s)) = p

\* index of the first occurrence of p in s, 0 when there is none
IndexOf(s, p) ==
  LET hits == {i \in 1..(Len(s) - Len(p) + 1) : SubSeq(s, i, i + Len(p) - 1) = p}
  IN IF hits = {} THEN 0 ELSE CHOOSE i \in hits : \A j \in hits : i <= j

Includes(s, p) == IndexOf(s, p) # 0

\* String.prototype.substring(n)
SubstringFrom(s, n) == SubSeq(s, n + 1, Len(s))

\* String.prototype.substring(0, n)
SubstringTo(s, n) == SubSeq(s, 1, IF n < Len(s) THEN n ELSE Len(s))

\* String.prototype.replace(p, r) with a string pattern: first occurrence only
Replace(s, p, r) ==
  LET i == IndexOf(s, p)
  IN IF i = 0 THEN s
     ELSE SubSeq(s, 1, i - 1) \o r \o SubSeq(s, i + Len(p), Len(s))

\* String.prototype.split(c) for a one-character separator
RECURSIVE Split(_, _)
Split(s, c) ==
  LET i == IndexOf(s, <<c>>)
  IN IF i = 0 THEN <<s>>
     ELSE <<SubSeq(s, 1, i - 1)>> \o Split(SubSeq(s, i + 1, Len(s)), c)

(***************************************************************************)
(* Protocol constants and frame types                                      *)
(***************************************************************************)
TAIL_CHAR == "$"

FrameACK == "+ACK"
FrameRESP == "+RESP"
FrameBUFF == "+BUFF"
FrameSACK == "+SACK"
NoFrameType == "null"

PrefixACK == <<"+", "A", "C", "K", ":">>
PrefixRESP == <<"+", "R", "E", "S", "P", ":">>
PrefixBUFF == <<"+", "B", "U", "F", "F", ":">>
PrefixSACK == <<"+", "S", "A", "C", "K", ":">>

GTHBD == <<"G", "T", "H", "B", "D">>
DefaultCount == <<"0", "0", "0", "0">>

(***************************************************************************)
(* ProtocolParser                                                          *)
(***************************************************************************)
identifyFrameType(message) ==
  IF StartsWith(message, PrefixACK) THEN FrameACK
  ELSE IF StartsWith(message, PrefixRESP) THEN FrameRESP
  ELSE IF StartsWith(message, PrefixBUFF) THEN FrameBUFF
  ELSE IF StartsWith(message, PrefixSACK) THEN FrameSACK
  ELSE NoFrameType

\* a generateSackMessage without the "0000" default
generateSackMessageNoDefault(commandWord, protocolVersion, countNumber) ==
  IF commandWord # <<>> /\ protocolVersion # <<>>
  THEN PrefixSACK \o commandWord \o <<",">> \o SubstringTo(protocolVersion, 6)
       \o <<",">> \o countNumber \o <<TAIL_CHAR>>
  ELSE PrefixSACK \o countNumber \o <<TAIL_CHAR>>

\* an omitted (undefined) argument is the empty text: both are falsy in the source
generateSackMessage(commandWord, protocolVersion, countNumber) ==
  LET count == IF countNumber # <<>> THEN countNumber ELSE DefaultCount
  IN IF commandWord # <<>> /\ protocolVersion # <<>>
     THEN PrefixSACK \o commandWord \o <<",">> \o SubstringTo(protocolVersion, 6)
          \o <<",">> \o count \o <<TAIL_CHAR>>
     ELSE PrefixSACK \o count \o <<TAIL_CHAR>>

Failure(err) == [success |-> FALSE, error |-> err]

\* an Ack decoder that asks for an ack whatever the command word
parseAckMessageAlwaysAck(message) ==
  LET parts == Split(Replace(SubstringFrom(message, 5), <<"$">>, <<>>), ",")
  IN IF Len(parts) < 6 THEN Failure("Mensagem ACK invalida")
     ELSE LET parsedMessage ==
                [frameType |-> FrameACK,
                 commandWord |-> parts[1],
                 fullProtocolVersion |-> parts[2],
                 uniqueId |-> parts[3],
                 deviceName |-> parts[4],
                 sendTime |-> parts[5],
                 countNumber |-> parts[6],
                 rawMessage |-> message]
          IN [success |-> TRUE,
              message |-> parsedMessage,
              needsAck |-> TRUE,
              ackMessage |-> generateSackMessage(parsedMessage.commandWord,
                               parsedMessage.fullProtocolVersion,
                               parsedMessage.countNumber)]

parseAckMessage(message) ==
  LET parts == Split(Replace(SubstringFrom(message, 5), <<"$">>, <<>>), ",")
  IN IF Len(parts) < 6 THEN Failure("Mensagem ACK invalida")
     ELSE LET parsedMessage ==
                [frameType |-> FrameACK,
                 commandWord |-> parts[1],
                 fullProtocolVersion |-> parts[2],
                 uniqueId |-> parts[3],
                 deviceName |-> parts[4],
                 sendTime |-> parts[5],
                 countNumber |-> parts[6],
                 rawMessage |-> message]
              hb == parsedMessage.commandWord = GTHBD
          IN [success |-> TRUE,
              message |-> parsedMessage,
              needsAck |-> hb,
              ackMessage |-> IF hb
                             THEN generateSackMessage(parsedMessage.commandWord,
                                    parsedMessage.fullProtocolVersion,
                                    parsedMessage.countNumber)
                             ELSE <<>>]

\* a Resp decoder that maps all six fields from the front, as the Ack one does
parseRespMessageFromFront(message) ==
  LET parts == Split(Replace(SubstringFrom(message, 6), <<"$">>, <<>>), ",")
  IN IF Len(parts) < 6 THEN Failure("Mensagem RESP invalida")
     ELSE LET parsedMessage ==
                [frameType |-> FrameRESP,
                 commandWord |-> parts[1],
                 fullProtocolVersion |-> parts[2],
                 uniqueId |-> parts[3],
                 deviceName |-> parts[4],
                 sendTime |-> parts[5],
                 countNumber |-> parts[6],
                 rawMessage |-> message]
          IN [success |-> TRUE,
              message |-> parsedMessage,
              needsAck |-> TRUE,
              ackMessage |-> generateSackMessage(<<>>, <<>>,
                               parsedMessage.countNumber)]

parseRespMessage(message) ==
  LET parts == Split(Replace(SubstringFrom(message, 6), <<"$">>, <<>>), ",")
  IN IF Len(parts) < 6 THEN Failure("Mensagem RESP invalida")
     ELSE LET parsedMessage ==
                [frameType |-> FrameRESP,
                 commandWord |-> parts[1],
                 fullProtocolVersion |-> parts[2],
                 uniqueId |-> parts[3],
                 deviceName |-> parts[4],
                 sendTime |-> parts[Len(parts) - 1],
                 countNumber |-> parts[Len(parts)],
                 rawMessage |-> message]
          IN [success |-> TRUE,
              message |-> parsedMessage,
              needsAck |-> TRUE,
              ackMessage |-> generateSackMessage(<<>>, <<>>,
                               parsedMessage.countNumber)]

\* a Buff decoder that maps the six fields from the front
parseBuffMessageFromFront(message) ==
  LET respMessage == Replace(message, PrefixBUFF, PrefixRESP)
      result == parseRespMessageFromFront(respMessage)
  IN IF result.success
     THEN [result EXCEPT !.message.frameType = FrameBUFF,
                         !.message.rawMessage = message]
     ELSE result

\* a Buff decoder that leaves the substituted Resp text in rawMessage
parseBuffMessageKeepRespText(message) ==
  LET respMessage == Replace(message, PrefixBUFF, PrefixRESP)
      result == parseRespMessage(respMessage)
  IN IF result.success
     THEN [result EXCEPT !.message.frameType = FrameBUFF]
     ELSE result

parseBuffMessage(message) ==
  LET respMessage == Replace(message, PrefixBUFF, PrefixRESP)
      result == parseRespMessage(respMessage)
  IN IF result.success
     THEN [result EXCEPT !.message.frameType = FrameBUFF,
                         !.message.rawMessage = message]
     ELSE result

\* a parseMessage that does not look at the end of the text
parseMessageNoTailCheck(rawMessage) ==
  LET cleanMessage == Trim(rawMessage)
      frameType == identifyFrameType(cleanMessage)
  IN IF frameType = NoFrameType
     THEN Failure("Tipo de frame nao reconhecido")
     ELSE IF frameType = FrameACK THEN parseAckMessage(cleanMessage)
     ELSE IF frameType = FrameRESP THEN parseRespMessage(cleanMessage)
     ELSE IF frameType = FrameBUFF THEN parseBuffMessage(cleanMessage)
     ELSE Failure("Tipo de frame nao suportado")

parseMessage(rawMessage) ==
  LET cleanMessage == Trim(rawMessage)
      frameType == identifyFrameType(cleanMessage)
  IN IF ~EndsWith(cleanMessage, <<TAIL_CHAR>>)
     THEN Failure("Mensagem nao termina com $")
     ELSE IF frameType = NoFrameType
     THEN Failure("Tipo de frame nao reconhecido")
     ELSE IF frameType = FrameACK THEN parseAckMessage(cleanMessage)
     ELSE IF frameType = FrameRESP THEN parseRespMessage(cleanMessage)
     ELSE IF frameType = FrameBUFF THEN parseBuffMessage(cleanMessage)
     ELSE Failure("Tipo de frame nao suportado")

isMessageComplete(data) == Includes(data, <<TAIL_CHAR>>)

\* a loop over the parts that keeps the blank ones
RECURSIVE TrimmedKeepBlank(_)
TrimmedKeepBlank(parts) ==
  IF parts = <<>> THEN <<>>
  ELSE <<Trim(Head(parts)) \o <<TAIL_CHAR>>>> \o TrimmedKeepBlank(Tail(parts))

RECURSIVE TrimmedNonEmpty(_)
TrimmedNonEmpty(parts) ==
  IF parts = <<>> THEN <<>>
  ELSE (IF Trim(Head(parts)) # <<>>
        THEN <<Trim(Head(parts)) \o <<TAIL_CHAR>>>>
        ELSE <<>>) \o TrimmedNonEmpty(Tail(parts))

extractMessages(buffer) ==
  LET parts == Split(buffer, TAIL_CHAR)
      kept == IF parts[Len(parts)] = <<>>
              THEN SubSeq(parts, 1, Len(parts) - 1)
              ELSE parts
  IN TrimmedNonEmpty(kept)

(***************************************************************************)
(* Data chunks a peer may send                                             *)
(***************************************************************************)
Version8 == <<"8", "0", "2", "0", "0", "A", "0", "3">>
GTFRI == <<"G", "T", "F", "R", "I">>

HeartbeatText(imei, count) ==
  PrefixACK \o GTHBD \o <<",">> \o Version8 \o <<",">> \o imei
    \o <<",", "N", ",", "T", ",">> \o count \o <<"$">>

ReportText(imei, count) ==
  PrefixRESP \o GTFRI \o <<",", "V", ",">> \o imei
    \o <<",", "N", ",", "x", ",", "T", ",">> \o count \o <<"$">>

ChunkHb == HeartbeatText(<<"7">>, <<"2", "9">>)
ChunkTwo == ReportText(<<"7">>, <<"2", "A">>) \o HeartbeatText(<<"8">>, <<"2", "B">>)
ChunkHttp ==
  <<"G", "E", "T", " ", "/", " ", "H", "T", "T", "P", "/", "1", ".", "1", "\r", "\n">>
ChunkBadNoId == <<"+", "X", ":", "a", "$">> \o ReportText(<<>>, <<>>)

\* the heartbeat of ChunkHb as TCP may deliver it: in two segments
ChunkHbHead == SubSeq(ChunkHb, 1, Len(PrefixACK \o GTHBD) + 2)
ChunkHbTail == SubSeq(ChunkHb, Len(ChunkHbHead) + 1, Len(ChunkHb))

\* an Ack frame that is not a heartbeat, and a heartbeat sent as a Resp frame
ChunkAckOther ==
  PrefixACK \o GTFRI \o <<",">> \o Version8
    \o <<",", "7", ",", "N", ",", "T", ",", "2", "C", "$">>
ChunkRespHb ==
  PrefixRESP \o GTHBD \o <<",">> \o Version8
    \o <<",", "7", ",", "N", ",", "T", ",", "2", "D", "$">>

Chunks ==
  <<ChunkHb, ChunkTwo, ChunkHttp, ChunkBadNoId, ChunkHbHead, ChunkHbTail,
    ChunkAckOther, ChunkRespHb>>
ChunkIds == 1..Len(Chunks)
\* the segments of a heartbeat, and the chunks that vary the kind of a frame
SegmentIds == {i \in ChunkIds : Chunks[i] \in {ChunkHbHead, ChunkHbTail}}
KindIds == {i \in ChunkIds : Chunks[i] \in {ChunkAckOther, ChunkRespHb}}
\* the chunks that hold whole frames or a whole request line
WholeChunkIds == ChunkIds \ (SegmentIds \cup KindIds)

(***************************************************************************)
(* Texts handed to the parser directly                                     *)
(***************************************************************************)
MaxFields == 7
MaxSegments == 3

RECURSIVE Join(_, _)
Join(parts, sep) ==
  IF parts = <<>> THEN <<>>
  ELSE IF Len(parts) = 1 THEN parts[1]
  ELSE parts[1] \o sep \o Join(Tail(parts), sep)

\* the values a comma-separated field takes
FieldTexts == {<<>>, GTHBD, Version8}
Bodies == UNION {[1..n -> FieldTexts] : n \in 0..MaxFields}
Prefixes == {PrefixACK, PrefixRESP, PrefixBUFF, PrefixSACK, <<"+", "X", ":">>}
\* what precedes the prefix and what follows the body
Leads == {<<>>, <<" ">>}
Ends == {<<"$">>, <<>>, <<"$", "\r", "\n">>}

FrameText(lead, prefix, fields, end) == lead \o prefix \o Join(fields, <<",">>) \o end

FrameTexts ==
  {FrameText(l, p, f, e) : l \in Leads, p \in Prefixes, f \in Bodies, e \in Ends}

\* buffers: up to MaxSegments segments, each followed by a terminator, and
\* possibly bytes after the last terminator
SegmentTexts == {<<>>, <<" ">>, <<"a">>, <<" ", "b">>}
BufferTexts ==
  {Join([k \in 1..n |-> segs[k] \o <<TAIL_CHAR>>], <<>>) \o rest :
     n \in 0..MaxSegments, segs \in [1..MaxSegments -> SegmentTexts],
     rest \in {<<>>, <<"a">>}}

(***************************************************************************)
(* State                                                                   *)
(***************************************************************************)
VARIABLES
  sock,               \* socket of each connection: none/open/ended/destroyed/closed
  peer,               \* remoteAddress:remotePort of each connection (its clientId)
  phase,              \* listeners installed on the socket: none/refused/initial/http/tcp
  isHttpConnection,   \* the closure variable of handleConnection
  preTimer,           \* the one-time 5 s timeout callback is still registered
  clients,            \* GL33CGTcpServer.clients: clientId -> client object (by connection)
  client,             \* the ConnectedClient object created for each connection
  tasks,              \* processMessage calls suspended on a database call
  discs,              \* handleClientDisconnect calls suspended on a database call
  activeConnections,  \* DataManager.activeConnections: clientId -> connection row
  calls,              \* per connection, the dataManager calls its handlers made
  written,            \* per connection, what the server wrote to its socket
  rx,                 \* per connection, the chunks its peer sent (indices of Chunks)
  nframes,            \* per connection, the frames handed to processMessage so far
  now,                \* per client object, the latest reading of new Date()
  enableSack,         \* config.enableSack
  crashed,            \* an error event without listener ended the process
  fullAtAccept,       \* history: the registry held maxConnections entries at accept
  failed,             \* history: handleClientConnection failed for a frame of the connection
  input,              \* the text handed to a direct call of a ProtocolParser function
  output,             \* what that call returned
  env,                \* process.env: the variables loadConfig reads
  simulator           \* the GL33CGSimulator of scripts/logMonitor.ts

vars == <<sock, peer, phase, isHttpConnection, preTimer, clients, client, tasks,
          discs, activeConnections, calls, written, rx, nframes, now, enableSack,
          crashed, fullAtAccept, failed, input, output, env,
          simulator>>

NoClient ==
  [exists |-> FALSE, imei |-> <<>>, deviceName |-> <<>>, lastHeartbeat |-> 0,
   connected |-> 0, messageCount |-> 0, isAlive |-> FALSE]

\* no direct call of the parser was made
NoOutput == [fn |-> "none"]

\* An environment variable is <<>> when it is not set and <<v>> when it is set
\* to v; the numeric ones hold the number their text denotes.
Unset == <<>>

\* loadConfig (server.ts 30-42): the settings the handlers read, and sackMode
loadConfig(e) ==
  [enableSack |-> e.ENABLE_SACK = <<"true">>,
   sackMode |-> IF e.SACK_MODE = Unset THEN 1 ELSE e.SACK_MODE[1],
   maxConnections |->
     IF e.MAX_CONNECTIONS = Unset THEN 1000 ELSE e.MAX_CONNECTIONS[1]]

\* this.config
config == loadConfig(env)

\* the environments of a deployment that sets MAX_CONNECTIONS, leaves
\* SACK_MODE alone and sets ENABLE_SACK to true or not at all
DeployedEnvs ==
  {[ENABLE_SACK |-> s, SACK_MODE |-> Unset, MAX_CONNECTIONS |-> <<maxConnections>>] :
     s \in {Unset, <<"true">>}}

\* the server after construction in one of the environments envs
Constructed(envs) ==
  /\ sock = [c \in Conns |-> "none"]
  /\ peer = [c \in Conns |-> "p1"]
  /\ phase = [c \in Conns |-> "none"]
  /\ isHttpConnection = [c \in Conns |-> FALSE]
  /\ preTimer = [c \in Conns |-> FALSE]
  /\ clients = [id \in ClientIds |-> NoConn]
  /\ client = [c \in Conns |-> NoClient]
  /\ tasks = {}
  /\ discs = {}
  /\ activeConnections = [id \in ClientIds |-> NoConn]
  /\ calls = [c \in Conns |-> <<>>]
  /\ written = [c \in Conns |-> <<>>]
  /\ rx = [c \in Conns |-> <<>>]
  /\ nframes = [c \in Conns |-> 0]
  /\ now = [c \in Conns |-> 0]
  /\ env \in envs
  /\ enableSack = loadConfig(env).enableSack
  /\ crashed = FALSE
  /\ fullAtAccept = [c \in Conns |-> FALSE]
  /\ failed = [c \in Conns |-> FALSE]

\* the server after construction
ServerInit == Constructed(DeployedEnvs)

(***************************************************************************)
(* GL33CGSimulator (scripts/logMonitor.ts)                                 *)
(***************************************************************************)
MaxSent == 3

HexDigits ==
  <<"0", "1", "2", "3", "4", "5", "6", "7", "8", "9", "A", "B", "C", "D", "E", "F">>

\* Number.prototype.toString(16) followed by toUpperCase()
RECURSIVE ToString16(_)
ToString16(n) ==
  IF n < 16 THEN <<HexDigits[n + 1]>>
  ELSE ToString16(n \div 16) \o <<HexDigits[(n % 16) + 1]>>

\* String.prototype.padStart(len, ch)
PadStart(s, len, ch) ==
  IF Len(s) >= len THEN s ELSE [i \in 1..(len - Len(s)) |-> ch] \o s

\* countHex of sendHeartbeat, sendLocationReport, sendBatteryAlert and
\* sendPowerAlert (logMonitor.ts 483-486, 498-501, 519-522, 534-537)
countHex(n) == PadStart(ToString16(n), 4, "0")

\* the command words of the frames the simulator sends
SimulatorWords == {"GTHBD", "GTFRI", "GTBPL", "GTPFA"}

\* the simulator that has sent n frames and is not connected; sent holds the
\* frames written from then on, as command word and sequence number
SimulatorAfter(n) == [messageCount |-> n, isConnected |-> FALSE, sent |-> <<>>]

\* sendMessage (logMonitor.ts 547-561) of a frame with command word w
sendMessage(sim, w) ==
  IF ~sim.isConnected THEN sim
  ELSE [sim EXCEPT !.sent = Append(@, [word |-> w, count |-> countHex(sim.messageCount)]),
                   !.messageCount = @ + 1]

\* the frame counts a simulator has reached when it is observed: the first
\* ones, and those around each new hexadecimal digit
SentBefore ==
  (0..2) \cup (14..17) \cup (254..257) \cup (4094..4097) \cup (65533..65537)

Init ==
  ServerInit /\ input = <<>> /\ output = NoOutput /\ simulator = SimulatorAfter(0)

(***************************************************************************)
(* Helpers of the server                                                   *)
(***************************************************************************)
\* new Date(): the wall clock is strictly later in every macrotask that reads
\* it for a session than in the previous one that did.  now[c] is the latest
\* reading taken for the client object of connection c, in units of such
\* readings; all readings of one macrotask are equal.
newDate == [c \in Conns |-> now[c] + 1]

clientsSize(cm) == Cardinality({id \in ClientIds : cm[id] # NoConn})

\* a classifier that knows the User-Agent header only
isHttpHealthCheckHeaderOnly(data) ==
  Includes(data, <<"U", "s", "e", "r", "-", "A", "g", "e", "n", "t", ":">>)

\* isHttpHealthCheck (server.ts 56-64)
isHttpHealthCheck(data) ==
  \/ Includes(data, <<"H", "T", "T", "P", "/">>)
  \/ Includes(data, <<"G", "E", "T", " ">>)
  \/ Includes(data, <<"H", "E", "A", "D", " ">>)
  \/ Includes(data, <<"P", "O", "S", "T", " ">>)
  \/ Includes(data, <<"U", "s", "e", "r", "-", "A", "g", "e", "n", "t", ":">>)

\* a capacity test that lets one connection too many in
atCapacityOffByOne(cm) == clientsSize(cm) > config.maxConnections

\* the capacity test of handleConnection (server.ts 74)
atCapacity(cm) == clientsSize(cm) >= config.maxConnections

\* a socket whose initialDataHandler stays registered after the first chunk
dataHandlerNeverRemoved(ph, data) ==
  IF ph \in {"initial", "tcp"} /\ isHttpHealthCheck(data) THEN "health"
  ELSE IF ph = "initial" THEN "setup"
  ELSE IF ph = "tcp" THEN "data" ELSE "none"

\* which 'data' listener of a socket runs for a chunk: initialDataHandler is
\* registered with once() and answers or hands over (server.ts 91-140), the
\* listener of setupTcpClient takes every later chunk (server.ts 182)
dataHandler(ph, data) ==
  IF ph = "initial"
  THEN (IF isHttpHealthCheck(data) THEN "health" ELSE "setup")
  ELSE IF ph = "tcp" THEN "data" ELSE "none"

Writable(sk, c) == sk[c] = "open"

Readable(c) == sock[c] \in {"open", "ended"}

RECURSIVE SumLen(_, _)
SumLen(f, S) ==
  IF S = {} THEN 0
  ELSE LET c == CHOOSE x \in S : TRUE IN Len(f[c]) + SumLen(f, S \ {c})

\* data events delivered so far, over all connections
DataEvents == SumLen(rx, Conns)

\* getStats (server.ts 613-627)
getStats(cm, cl) ==
  [totalConnections |-> clientsSize(cm),
   identifiedDevices |->
     Cardinality({id \in ClientIds : cm[id] # NoConn /\ cl[cm[id]].imei # <<>>})]

\* the response of initialDataHandler (server.ts 100-120); uptime and
\* timestamp are left out
HttpResponse(stats) ==
  [kind |-> "HTTP/1.1 200 OK", status |-> "healthy",
   connections |-> stats.totalConnections, devices |-> stats.identifiedDevices]

\* The part of the state a frame handler reads and writes, threaded through
\* the handlers of one macrotask.
Pack ==
  [now |-> now, client |-> client, calls |-> calls, written |-> written, tasks |-> tasks,
   nframes |-> nframes, clients |-> clients, sock |-> sock,
   activeConnections |-> activeConnections, discs |-> discs, micro |-> <<>>]

\* sendAckMessage (server.ts 446-467)
sendAckMessage(st, clientId, ackMessage) ==
  LET target == st.clients[clientId]
  IN IF target = NoConn \/ ~Writable(st.sock, target) THEN st
     ELSE [st EXCEPT !.written[target] =
             Append(@, [kind |-> "sack", text |-> ackMessage])]

\* a processMessage that sends no ack under sackMode 0
afterHandleMessageByMode(st, t) ==
  LET pm == t.res.message
      st1 == IF pm.frameType = FrameACK /\ pm.commandWord = GTHBD
             THEN [st EXCEPT !.client[t.cref].lastHeartbeat = newDate[t.cref],
                             !.now[t.cref] = newDate[t.cref]]
             ELSE st
  IN IF enableSack /\ config.sackMode # 0 /\ t.res.needsAck /\ t.res.ackMessage # <<>>
     THEN sendAckMessage(st1, t.id, t.res.ackMessage)
     ELSE st1

\* processMessage after `await dataManager.handleMessage` (server.ts 311-345)
afterHandleMessage(st, t) ==
  LET pm == t.res.message
      st1 == IF pm.frameType = FrameACK /\ pm.commandWord = GTHBD
             THEN [st EXCEPT !.client[t.cref].lastHeartbeat = newDate[t.cref],
                             !.now[t.cref] = newDate[t.cref]]
             ELSE st
  IN IF enableSack /\ t.res.needsAck /\ t.res.ackMessage # <<>>
     THEN sendAckMessage(st1, t.id, t.res.ackMessage)
     ELSE st1

\* `await dataManager.handleMessage(clientId, parsedMessage, client)`:
\* handleMessage returns at once for a client without imei, else it awaits
\* the database.
invokeHandleMessage(st, t) ==
  LET st1 == [st EXCEPT !.calls[t.h] =
                Append(@, [fn |-> "handleMessage", seq |-> t.seq])]
  IN IF st1.client[t.cref].imei = <<>>
     THEN afterHandleMessage(st1, t)
     ELSE [st1 EXCEPT !.tasks = @ \cup {[t EXCEPT !.pc = "msg"]}]

\* a processMessage in which every frame carrying an identifier writes it
processMessageLastWriter(st, h, clientId, message) ==
  LET cref == st.clients[clientId]
      k == st.nframes[h] + 1
      res == parseMessage(message)
  IN IF cref = NoConn THEN st
     ELSE IF ~res.success THEN [st EXCEPT !.nframes[h] = k]
     ELSE LET pm == res.message
              t == [h |-> h, id |-> clientId, cref |-> cref, seq |-> k,
                    res |-> res, pc |-> "ident"]
              st1 == [st EXCEPT !.nframes[h] = k,
                                !.client[cref].messageCount = @ + 1]
          IN IF pm.uniqueId # <<>>
             THEN [st1 EXCEPT !.client[cref].imei = pm.uniqueId,
                              !.client[cref].deviceName = pm.deviceName,
                              !.calls[h] = Append(@,
                                 [fn |-> "handleClientConnection", seq |-> k]),
                              !.tasks = @ \cup {t}]
             ELSE invokeHandleMessage(st1, t)

\* a processMessage that does not wait for handleClientConnection to return
processMessageNoAwait(st, h, clientId, message) ==
  LET cref == st.clients[clientId]
      k == st.nframes[h] + 1
      res == parseMessage(message)
  IN IF cref = NoConn THEN st
     ELSE IF ~res.success THEN [st EXCEPT !.nframes[h] = k]
     ELSE LET pm == res.message
              t == [h |-> h, id |-> clientId, cref |-> cref, seq |-> k,
                    res |-> res, pc |-> "ident"]
              st1 == [st EXCEPT !.nframes[h] = k,
                                !.client[cref].messageCount = @ + 1]
          IN IF pm.uniqueId # <<>> /\ st1.client[cref].imei = <<>>
             THEN invokeHandleMessage(
                    [st1 EXCEPT !.client[cref].imei = pm.uniqueId,
                                !.client[cref].deviceName = pm.deviceName,
                                !.calls[h] = Append(@,
                                   [fn |-> "handleClientConnection", seq |-> k]),
                                !.tasks = @ \cup {t}], t)
             ELSE invokeHandleMessage(st1, t)

\* processMessage up to its first await (server.ts 260-309)
processMessage(st, h, clientId, message) ==
  LET cref == st.clients[clientId]
      k == st.nframes[h] + 1
      res == parseMessage(message)
  IN IF cref = NoConn THEN st
     ELSE IF ~res.success THEN [st EXCEPT !.nframes[h] = k]
     ELSE LET pm == res.message
              t == [h |-> h, id |-> clientId, cref |-> cref, seq |-> k,
                    res |-> res, pc |-> "ident"]
              st1 == [st EXCEPT !.nframes[h] = k,
                                !.client[cref].messageCount = @ + 1]
          IN IF pm.uniqueId # <<>> /\ st1.client[cref].imei = <<>>
             THEN [st1 EXCEPT !.client[cref].imei = pm.uniqueId,
                              !.client[cref].deviceName = pm.deviceName,
                              !.calls[h] = Append(@,
                                 [fn |-> "handleClientConnection", seq |-> k]),
                              !.tasks = @ \cup {t}]
             ELSE invokeHandleMessage(st1, t)

\* a loop over the frames of a buffer that gives up at the first frame that
\* does not decode
RECURSIVE processAllStopAtFailure(_, _, _, _)
processAllStopAtFailure(st, h, clientId, messages) ==
  IF messages = <<>> \/ ~parseMessage(Head(messages)).success THEN st
  ELSE processAllStopAtFailure(processMessage(st, h, clientId, Head(messages)),
                               h, clientId, Tail(messages))

RECURSIVE processAll(_, _, _, _)
processAll(st, h, clientId, messages) ==
  IF messages = <<>> THEN st
  ELSE processAll(processMessage(st, h, clientId, Head(messages)), h, clientId,
                  Tail(messages))

\* handleClientData (server.ts 205-255)
handleClientData(st, h, clientId, data) ==
  LET message == Trim(data)
  IN IF st.clients[clientId] = NoConn THEN st
     ELSE IF ~isMessageComplete(message) THEN st
     ELSE processAll(st, h, clientId, extractMessages(message))

\* setupTcpClient (server.ts 166-200)
setupTcpClient(st, h, clientId) ==
  [st EXCEPT !.client[h] = [exists |-> TRUE, imei |-> <<>>, deviceName |-> <<>>,
                            lastHeartbeat |-> now[h], connected |-> now[h],
                            messageCount |-> 0, isAlive |-> TRUE],
             !.clients[clientId] = h]

\* a handleClientDisconnect that notifies the collaborator whether or not the
\* registry holds the clientId
handleClientDisconnectUnguarded(st, h, clientId, k) ==
  LET cref == st.clients[clientId]
  IN IF cref = NoConn
     THEN [st EXCEPT !.calls[h] = Append(@,
             [fn |-> "handleClientDisconnection", sess |-> NoConn,
              duration |-> 0, messageCount |-> 0]),
                     !.micro = Append(@, clientId)]
     ELSE LET st1 == [st EXCEPT !.now[cref] = newDate[cref], !.calls[h] = Append(@,
                        [fn |-> "handleClientDisconnection", sess |-> cref,
                         duration |-> newDate[cref] - st.client[cref].connected,
                         messageCount |-> st.client[cref].messageCount])]
          IN IF st.activeConnections[clientId] = NoConn
             THEN [st1 EXCEPT !.micro = Append(@, clientId)]
             ELSE [st1 EXCEPT !.discs = @ \cup {[h |-> h, id |-> clientId, k |-> k]}]

\* handleClientDisconnect (server.ts 472-504), called by close listener number k
\* of connection h.  With no row in activeConnections the notification returns
\* at once and the delete runs at the end of the macrotask (after the other
\* listeners); otherwise the call stays suspended on database.updateConnection.
handleClientDisconnect(st, h, clientId, k) ==
  LET cref == st.clients[clientId]
  IN IF cref = NoConn THEN st
     ELSE LET st1 == [st EXCEPT !.now[cref] = newDate[cref], !.calls[h] = Append(@,
                        [fn |-> "handleClientDisconnection", sess |-> cref,
                         duration |-> newDate[cref] - st.client[cref].connected,
                         messageCount |-> st.client[cref].messageCount])]
          IN IF st.activeConnections[clientId] = NoConn
             THEN [st1 EXCEPT !.micro = Append(@, clientId)]
             ELSE [st1 EXCEPT !.discs = @ \cup {[h |-> h, id |-> clientId, k |-> k]}]

\* handleClientError (server.ts 509-521)
handleClientError(st, clientId) == [st EXCEPT !.clients[clientId] = NoConn]

\* the continuations queued as microtasks: `this.clients.delete(clientId)` of the
\* handleClientDisconnect calls whose notification returned without I/O
RECURSIVE runMicrotasks(_)
runMicrotasks(st) ==
  IF st.micro = <<>> THEN st
  ELSE runMicrotasks([st EXCEPT !.clients[Head(st.micro)] = NoConn,
                                !.micro = Tail(@)])

Unpack(st0) ==
  LET st == runMicrotasks(st0)
  IN /\ now' = st.now
     /\ client' = st.client
     /\ calls' = st.calls
     /\ written' = st.written
     /\ tasks' = st.tasks
     /\ nframes' = st.nframes
     /\ clients' = st.clients
     /\ activeConnections' = st.activeConnections
     /\ discs' = st.discs

(***************************************************************************)
(* Actions: one per event of the event loop                                *)
(***************************************************************************)
\* 'connection' event: handleConnection (server.ts 69-161)
Accept(c, id) ==
  /\ ~crashed
  /\ UNCHANGED <<input, output, env, simulator>>
  /\ sock[c] = "none"
  /\ \A d \in Conns : d < c => sock[d] # "none"
  \* a peer address:port names one live socket at a time; the first
  \* connection is the one called p1
  /\ \A d \in Conns : (sock[d] \notin {"none", "closed"}) => peer[d] # id
  /\ c = 1 => id = "p1"
  /\ peer' = [peer EXCEPT ![c] = id]
  /\ fullAtAccept' = [fullAtAccept EXCEPT ![c] = clientsSize(clients) >= config.maxConnections]
  /\ IF atCapacity(clients)
     THEN /\ sock' = [sock EXCEPT ![c] = "ended"]
          /\ phase' = [phase EXCEPT ![c] = "refused"]
          /\ UNCHANGED preTimer
     ELSE /\ sock' = [sock EXCEPT ![c] = "open"]
          /\ phase' = [phase EXCEPT ![c] = "initial"]
          /\ preTimer' = [preTimer EXCEPT ![c] = TRUE]
  /\ UNCHANGED <<isHttpConnection, clients, client, tasks, discs,
                 activeConnections, calls, written, rx, nframes, now, enableSack,
                 crashed, failed>>


\* 'data' event.  initial: initialDataHandler (server.ts 91-137); tcp: the
\* listener of setupTcpClient (server.ts 182); refused and http: no listener.
Data(c, i) ==
  /\ ~crashed
  /\ UNCHANGED <<input, output, env, simulator>>
  /\ Readable(c)
  /\ rx' = [rx EXCEPT ![c] = Append(@, i)]
  /\ CASE dataHandler(phase[c], Chunks[i]) = "health" ->
            /\ UNCHANGED now
            /\ isHttpConnection' = [isHttpConnection EXCEPT ![c] = TRUE]
            /\ written' = [written EXCEPT ![c] =
                  Append(@, HttpResponse(getStats(clients, client)))]
            /\ sock' = [sock EXCEPT ![c] = "ended"]
            /\ phase' = [phase EXCEPT ![c] = "http"]
            /\ UNCHANGED <<clients, client, tasks, discs, activeConnections,
                           calls, nframes>>
       [] dataHandler(phase[c], Chunks[i]) = "setup" ->
            /\ phase' = [phase EXCEPT ![c] = "tcp"]
            /\ Unpack(handleClientData(setupTcpClient(Pack, c, peer[c]),
                                       c, peer[c], Chunks[i]))
            /\ UNCHANGED <<isHttpConnection, sock>>
       [] dataHandler(phase[c], Chunks[i]) = "data" ->
            /\ Unpack(handleClientData(Pack, c, peer[c], Chunks[i]))
            /\ UNCHANGED <<isHttpConnection, sock, phase>>
       [] OTHER ->
            UNCHANGED <<isHttpConnection, sock, phase, clients, client, tasks,
                        discs, activeConnections, calls, written, nframes, now>>
  /\ UNCHANGED <<peer, preTimer, enableSack, crashed, fullAtAccept, failed>>

\* the close listeners of connection c, in registration order
\* (server.ts 156-160, then 183 once setupTcpClient ran)
closeListeners(st, c) ==
  LET id == peer[c]
      st1 == IF phase[c] \in {"initial", "http", "tcp"}
                /\ ~isHttpConnection[c] /\ st.clients[id] # NoConn
             THEN handleClientDisconnect(st, c, id, 1)
             ELSE st
  IN IF phase[c] = "tcp" THEN handleClientDisconnect(st1, c, id, 2) ELSE st1

\* the error listeners of connection c (server.ts 150-154, then 184)
errorListeners(st, c) ==
  LET id == peer[c]
      st1 == IF ~isHttpConnection[c] THEN handleClientError(st, id) ELSE st
  IN IF phase[c] = "tcp" THEN handleClientError(st1, id) ELSE st1

\* 'close' event without error: the peer closed, or destroy() completed
Close(c) ==
  /\ ~crashed
  /\ UNCHANGED <<input, output, env, simulator>>
  /\ sock[c] \in {"open", "ended", "destroyed"}
  /\ sock' = [sock EXCEPT ![c] = "closed"]
  /\ Unpack(closeListeners(Pack, c))
  /\ UNCHANGED <<peer, phase, isHttpConnection, preTimer, rx, enableSack, crashed,
                 fullAtAccept, failed>>

\* socket error: 'error' and then 'close' are emitted in the same tick
ErrorClose(c) ==
  /\ ~crashed
  /\ UNCHANGED <<input, output, env, simulator>>
  /\ Readable(c)
  /\ IF phase[c] = "refused"
     THEN /\ crashed' = TRUE
          /\ UNCHANGED <<sock, clients, client, tasks, discs, activeConnections,
                         calls, written, nframes, now>>
     ELSE /\ sock' = [sock EXCEPT ![c] = "closed"]
          /\ Unpack(closeListeners(errorListeners(Pack, c), c))
          /\ UNCHANGED crashed
  /\ UNCHANGED <<peer, phase, isHttpConnection, preTimer, rx, enableSack,
                 fullAtAccept, failed>>

\* a 5 s callback that destroys the socket without looking at the connection
preClassificationDestroysUnchecked(c) == preTimer[c]

\* the callback of the 5 s timeout destroys the socket (server.ts 143-147)
preClassificationDestroys(c) ==
  preTimer[c] /\ ~isHttpConnection[c] /\ clients[peer[c]] = NoConn

\* 'timeout' event: the callback of server.ts 143-147, registered once, then the
\* callback of setupTcpClient (server.ts 187-199)
Timeout(c) ==
  /\ ~crashed
  /\ UNCHANGED <<input, output, env, simulator>>
  /\ Readable(c)
  /\ preTimer[c] \/ phase[c] = "tcp"
  /\ preTimer' = [preTimer EXCEPT ![c] = FALSE]
  /\ sock' = [sock EXCEPT ![c] =
                IF preClassificationDestroys(c) \/ phase[c] = "tcp"
                THEN "destroyed" ELSE @]
  /\ UNCHANGED <<peer, phase, isHttpConnection, clients, client, tasks, discs,
                 activeConnections, calls, written, rx, nframes, now, enableSack,
                 crashed, fullAtAccept, failed>>

\* a database call of a suspended processMessage settles: it returned (ok) or
\* threw.  handleClientConnection and handleMessage catch the error and return
\* (dataManager.ts 94-102, 212-222); only a handleClientConnection whose calls
\* all succeeded records the connection row (dataManager.ts 87-88)
DbReturnTask(t, ok) ==
  /\ ~crashed
  /\ UNCHANGED <<input, output, env, simulator>>
  /\ t \in tasks
  /\ LET st == [Pack EXCEPT !.tasks = @ \ {t}]
     IN IF t.pc = "ident"
        THEN Unpack(invokeHandleMessage(
               IF ok THEN [st EXCEPT !.activeConnections[t.id] = t.h] ELSE st, t))
        ELSE Unpack(afterHandleMessage(st, t))
  /\ failed' = [failed EXCEPT ![t.h] = @ \/ (t.pc = "ident" /\ ~ok)]
  /\ UNCHANGED <<sock, peer, phase, isHttpConnection, preTimer, rx, enableSack,
                 crashed, fullAtAccept>>

\* database.updateConnection of a suspended handleClientDisconnect settles
\* (dataManager.ts 125-131, then server.ts 486-503); it returned (ok) or threw
DbReturnDisc(d, ok) ==
  /\ ~crashed
  /\ UNCHANGED <<input, output, env, simulator>>
  /\ d \in discs
  /\ discs' = discs \ {d}
  /\ activeConnections' =
       IF ok THEN [activeConnections EXCEPT ![d.id] = NoConn] ELSE activeConnections
  /\ clients' = [clients EXCEPT ![d.id] = NoConn]
  /\ UNCHANGED <<sock, peer, phase, isHttpConnection, preTimer, client, tasks,
                 calls, written, rx, nframes, now, enableSack, crashed,
                 fullAtAccept, failed>>

\* the events of an environment whose peers send at most `budget` chunks in
\* all, each one of the chunks `kinds`
Events(kinds, budget) ==
  \/ \E c \in Conns, id \in ClientIds : Accept(c, id)
  \/ \E c \in Conns, i \in kinds : DataEvents < budget /\ Data(c, i)
  \/ \E c \in Conns : Close(c)
  \/ \E c \in Conns : ErrorClose(c)
  \/ \E c \in Conns : Timeout(c)
  \/ \E t \in tasks, ok \in BOOLEAN : DbReturnTask(t, ok)
  \/ \E d \in discs, ok \in BOOLEAN : DbReturnDisc(d, ok)

Next == Events(WholeChunkIds, MaxData)

Spec == Init /\ [][Next]_vars

\* the same server with peers that send only heartbeat chunks, and one more of
\* them: long enough for a peer address:port to be used again and its new
\* connection to send twice
HeartbeatNext == Events({1}, MaxData + 1)

HeartbeatSpec == Init /\ [][HeartbeatNext]_vars

\* the same server with peers whose heartbeats arrive whole or in two segments
SplitNext == Events({1} \cup SegmentIds, MaxData)

SplitSpec == Init /\ [][SplitNext]_vars

\* the same server with peers that send heartbeats, Ack frames that are not
\* heartbeats and heartbeats framed as Resp
KindsNext == Events({1} \cup KindIds, MaxData)

KindsSpec == Init /\ [][KindsNext]_vars

\* peers that send heartbeats, as many chunks as in the main specification
PlainNext == Events({1}, MaxData)

\* the environments that set ENABLE_SACK and SACK_MODE in every way
ModeEnvs ==
  {[ENABLE_SACK |-> s, SACK_MODE |-> m, MAX_CONNECTIONS |-> <<maxConnections>>] :
     s \in {Unset, <<"true">>, <<"false">>}, m \in {Unset, <<0>>, <<1>>, <<2>>}}

\* the server started in any of them, with peers that send heartbeats
ModeInit ==
  /\ Constructed(ModeEnvs) /\ input = <<>> /\ output = NoOutput
  /\ simulator = SimulatorAfter(0)

ModeSpec == ModeInit /\ [][PlainNext]_vars

\* the server configured with room for one session more, so that a peer
\* address:port can come back while the session of its previous connection
\* is still in the registry
RoomyEnvs ==
  {[ENABLE_SACK |-> <<"true">>, SACK_MODE |-> Unset,
    MAX_CONNECTIONS |-> <<maxConnections + 1>>]}

RoomyInit ==
  /\ Constructed(RoomyEnvs) /\ input = <<>> /\ output = NoOutput
  /\ simulator = SimulatorAfter(0)

RoomySpec == RoomyInit /\ [][PlainNext]_vars

\* a direct call of ProtocolParser.parseMessage(input)
ParseMessage ==
  /\ output = NoOutput
  /\ output' = [fn |-> "parseMessage", value |-> parseMessage(input)]
  /\ UNCHANGED <<sock, peer, phase, isHttpConnection, preTimer, clients, client,
                 tasks, discs, activeConnections, calls, written, rx, nframes, now,
                 enableSack, crashed, fullAtAccept, failed, input, env,
                 simulator>>

\* a direct call of ProtocolParser.extractMessages(input)
ExtractMessages ==
  /\ output = NoOutput
  /\ output' = [fn |-> "extractMessages", value |-> extractMessages(input)]
  /\ UNCHANGED <<sock, peer, phase, isHttpConnection, preTimer, clients, client,
                 tasks, discs, activeConnections, calls, written, rx, nframes, now,
                 enableSack, crashed, fullAtAccept, failed, input, env,
                 simulator>>

\* the parser called on each of the texts, outside of any connection
ParserInit ==
  /\ ServerInit /\ input \in FrameTexts \cup BufferTexts /\ output = NoOutput
  /\ simulator = SimulatorAfter(0)

ParserNext == ParseMessage \/ ExtractMessages

ParserSpec == ParserInit /\ [][ParserNext]_vars

\* the variables of the server and of the direct parser calls
serverVars ==
  <<sock, peer, phase, isHttpConnection, preTimer, clients, client, tasks,
    discs, activeConnections, calls, written, rx, nframes, now, enableSack,
    crashed, fullAtAccept, failed, input, output, env>>

\* 'connect' event of the simulator's socket (logMonitor.ts 409-415):
\* startHeartbeat sends the first heartbeat at once
SimConnect ==
  /\ ~simulator.isConnected
  /\ Len(simulator.sent) < MaxSent
  /\ simulator' = sendMessage([simulator EXCEPT !.isConnected = TRUE], "GTHBD")
  /\ UNCHANGED serverVars

\* the heartbeat timer or a menu command sends a frame (logMonitor.ts 468-541)
SimSend(w) ==
  /\ simulator.isConnected
  /\ Len(simulator.sent) < MaxSent
  /\ simulator' = sendMessage(simulator, w)
  /\ UNCHANGED serverVars

\* 'close' or 'error' event of the simulator's socket (logMonitor.ts 443-452)
SimClose ==
  /\ simulator.isConnected
  /\ simulator' = [simulator EXCEPT !.isConnected = FALSE]
  /\ UNCHANGED serverVars

\* the simulator observed after it has sent any of the counts of SentBefore
SimulatorInit ==
  /\ ServerInit /\ input = <<>> /\ output = NoOutput
  /\ simulator \in {SimulatorAfter(n) : n \in SentBefore}

SimulatorNext == SimConnect \/ (\E w \in SimulatorWords : SimSend(w)) \/ SimClose

SimulatorSpec == SimulatorInit /\ [][SimulatorNext]_vars

\* the event loop delivers the 'close' event of a destroyed socket; nothing
\* is assumed about the database answering
FairSpec == Spec /\ \A c \in Conns : WF_vars(sock[c] = "destroyed" /\ Close(c))

(***************************************************************************)
(* Observations used by the properties                                     *)
(***************************************************************************)
\* positions of the log of connection h that are calls of function fn
CallsOf(h, fn) == {j \in 1..Len(calls[h]) : calls[h][j].fn = fn}

\* disconnect notifications emitted for the session of connection s
Disconnections(s) ==
  UNION {{<<h, j>> : j \in {i \in CallsOf(h, "handleClientDisconnection") :
                                calls[h][i].sess = s}} : h \in Conns}

\* the session of connection c was created and is no longer in the registry
Registered(c) == clients[peer[c]] = c
Removed(c) == client[c].exists /\ ~Registered(c)

\* per chunk, for each of its frames in order, whether the frame decodes
ChunkDecodes ==
  [i \in ChunkIds |->
     LET frames == IF isMessageComplete(Trim(Chunks[i]))
                   THEN extractMessages(Trim(Chunks[i]))
                   ELSE <<>>
     IN [k \in 1..Len(frames) |-> parseMessage(frames[k]).success]]

\* the same for the chunks received so far on a connection, in arrival order
RECURSIVE DecodesOf(_)
DecodesOf(chunkIds) ==
  IF chunkIds = <<>> THEN <<>>
  ELSE ChunkDecodes[Head(chunkIds)] \o DecodesOf(Tail(chunkIds))

Decodable(c) == {k \in 1..Len(DecodesOf(rx[c])) : DecodesOf(rx[c])[k]}

\* an HTTP request line or header token, as the health-check contract lists them
HasHttpToken(data) ==
  \E tok \in {<<"H", "T", "T", "P", "/">>, <<"G", "E", "T", " ">>,
              <<"H", "E", "A", "D", " ">>, <<"P", "O", "S", "T", " ">>,
              <<"U", "s", "e", "r", "-", "A", "g", "e", "n", "t", ":">>} :
    \E j \in 1..Len(data) :
      j + Len(tok) - 1 <= Len(data) /\ SubSeq(data, j, j + Len(tok) - 1) = tok

HttpChunkIds == {i \in ChunkIds : HasHttpToken(Chunks[i])}

IsHttpResponse(w) == w.kind = "HTTP/1.1 200 OK"

(***************************************************************************)
(* Properties                                                              *)
(***************************************************************************)

\* C1: for every registered session at most one disconnect notification
\* (dataManager.handleClientDisconnection) is ever emitted.
C1_AtMostOneDisconnect ==
  \A s \in Conns : Cardinality(Disconnections(s)) <= 1

\* C2: once the socket of a registered session is closed, whatever the cause
\* (peer close, error then close, timeout), a disconnect notification carrying
\* the session's final messageCount and its duration has been emitted.
C2_TeardownNotifies ==
  \A s \in Conns :
    (client[s].exists /\ sock[s] = "closed") =>
      \E d \in Disconnections(s) :
        /\ calls[d[1]][d[2]].messageCount = client[s].messageCount
        /\ calls[d[1]][d[2]].duration >= 0

\* C3: the registry never holds more than maxConnections sessions.
C3_RegistryWithinCap == clientsSize(clients) <= maxConnections

\* C4: on each connection the handleMessage notifications are invoked in the
\* arrival order of their frames.
C4_ForwardedInArrivalOrder ==
  \A h \in Conns :
    \A i, j \in CallsOf(h, "handleMessage") :
      i < j => calls[h][i].seq < calls[h][j].seq

\* C5: a frame that arrives while the collaborator callback of an earlier
\* frame of the same connection has not returned is still decoded, counted in
\* messageCount and forwarded: every decodable frame received on a protocol
\* connection is counted, and is forwarded unless its own identification
\* callback is still running.
C5_LaterFrameProcessed ==
  \A c \in Conns :
    phase[c] = "tcp" =>
      /\ client[c].messageCount = Cardinality(Decodable(c))
      /\ \A k \in Decodable(c) :
           \/ \E j \in CallsOf(c, "handleMessage") : calls[c][j].seq = k
           \/ \E t \in tasks : t.h = c /\ t.seq = k /\ t.pc = "ident"

\* C6: once a session has been removed from the registry, none of its fields
\* (imei, deviceName, messageCount, lastHeartbeat) changes any more.
C6_NoMutationAfterRemoval ==
  [][\A c \in Conns : Removed(c) => client'[c] = client[c]]_vars

\* C7: after the socket of a registered connection has closed, its session is
\* eventually absent from the registry and stays absent.
C7_EventuallyRemoved ==
  \A c \in Conns :
    [](client[c].exists /\ sock[c] = "closed" => <>[](clients[peer[c]] # c))

\* C8: a connection accepted while the registry holds maxConnections sessions is
\* closed by the server at accept; no session is ever created for it, none of
\* its bytes is classified or decoded, and nothing is written to it.
C8_RefusedAtCapacity ==
  \A c \in Conns :
    fullAtAccept[c] =>
      /\ sock[c] \in {"ended", "closed"}
      /\ ~client[c].exists
      /\ \A id \in ClientIds : clients[id] # c
      /\ ~isHttpConnection[c]
      /\ phase[c] \notin {"http", "tcp"}
      /\ nframes[c] = 0
      /\ calls[c] = <<>>
      /\ written[c] = <<>>

C8_Witness ==
  \E c \in Conns : fullAtAccept[c] /\ rx[c] # <<>> /\ sock[c] = "ended"

\* the health-check outcome for connection c: exactly the HTTP 200 response
\* was written, the server closed the socket, no session exists
HealthChecked(c) ==
  /\ Len(written[c]) = 1
  /\ IsHttpResponse(written[c][1])
  /\ written[c][1].status = "healthy"
  /\ sock[c] \in {"ended", "closed"}
  /\ ~client[c].exists
  /\ \A id \in ClientIds : clients[id] # c

FirstChunkHttp(c) == rx[c] # <<>> /\ rx[c][1] \in HttpChunkIds

\* C9 as stated: every connection whose first chunk contains an HTTP token is
\* answered with the HTTP 200 response and closed, and gets no session, in
\* every server state, the registry at capacity included.
C9_HealthCheckInEveryState ==
  \A c \in Conns : FirstChunkHttp(c) => HealthChecked(c)

\* C9 amended: every connection accepted while the registry holds fewer than
\* maxConnections sessions and whose first chunk contains an HTTP token is
\* answered with the HTTP 200 response and closed, and gets no session.
C9_HealthCheckBelowCapacity ==
  \A c \in Conns : (~fullAtAccept[c] /\ FirstChunkHttp(c)) => HealthChecked(c)

C9_Witness ==
  \E c \in Conns :
    /\ ~fullAtAccept[c] /\ FirstChunkHttp(c) /\ written[c] # <<>>
    /\ \E id \in ClientIds : clients[id] # NoConn

\* C10: the classification of a connection is the one its first chunk got:
\* a connection whose first chunk had no HTTP token is never answered with an
\* HTTP response, whatever later chunks contain; on a connection whose first
\* chunk had one, no chunk is ever decoded as a frame.
C10_ClassifiedOnce ==
  \A c \in Conns :
    (sock[c] # "none" /\ ~fullAtAccept[c]) =>
      /\ rx[c] = <<>> => phase[c] = "initial"
      /\ FirstChunkHttp(c) =>
           /\ phase[c] = "http" /\ isHttpConnection[c]
           /\ nframes[c] = 0 /\ calls[c] = <<>> /\ ~client[c].exists
           /\ Len(written[c]) = 1
      /\ (rx[c] # <<>> /\ ~FirstChunkHttp(c)) =>
           /\ phase[c] = "tcp" /\ ~isHttpConnection[c]
           /\ \A j \in 1..Len(written[c]) : ~IsHttpResponse(written[c][j])

C10_Witness ==
  \E c \in Conns :
    /\ phase[c] = "tcp"
    /\ Len(rx[c]) = 2
    /\ rx[c][2] \in HttpChunkIds

\* C11: the imei and the deviceName of a session are written at most once:
\* once the imei is set, no step changes either of them, whatever identifier
\* later frames carry; and the two are written together, by a frame that
\* carries a non-empty identifier.
C11_FirstWriterWins ==
  [][\A c \in Conns :
       /\ client[c].imei # <<>> =>
            /\ client'[c].imei = client[c].imei
            /\ client'[c].deviceName = client[c].deviceName
       /\ client[c].imei = <<>> /\ client'[c].imei = <<>> =>
            client'[c].deviceName = client[c].deviceName]_vars

\* a session identified as 7 has processed a later frame that reports 8
C11_Witness ==
  \E c \in Conns :
    /\ rx[c] = <<2>>
    /\ client[c].imei = <<"7">>
    /\ client[c].messageCount = 2

\* C12: the messageCount of a session equals the number of frames received on
\* its connection whose decode succeeds, and every disconnect notification
\* emitted for the session reports a count that does not exceed it.
C12_CountEqualsDecoded ==
  \A c \in Conns :
    client[c].exists =>
      /\ client[c].messageCount = Cardinality(Decodable(c))
      /\ \A d \in Disconnections(c) :
           calls[d[1]][d[2]].messageCount <= client[c].messageCount

\* the frames of chunk i that decode, by their position in the chunk
Decoding(i) == {k \in 1..Len(ChunkDecodes[i]) : ChunkDecodes[i][k]}

\* connection c receives chunk i, which holds frames, in this step, as a
\* protocol connection whose session is in the registry (it is registered by
\* this very step when the chunk is the first one)
Processes(c, i) ==
  /\ rx'[c] = Append(rx[c], i)
  /\ Len(ChunkDecodes[i]) > 0
  /\ phase'[c] = "tcp"
  /\ phase[c] = "tcp" => clients[peer[c]] = c

\* C13: a frame that fails to decode changes nothing and stops nothing.  In
\* every step that processes a buffer, messageCount grows by the number of its
\* frames that decode, the collaborator is called for those frames only and
\* for each of them, at most one ack per decoded frame is written, the socket
\* stays as it was, and a buffer none of whose frames decodes leaves the
\* session unchanged.
C13_DecodeFailureIsFrameLocal ==
  [][\A c \in Conns : \A i \in ChunkIds :
       Processes(c, i) =>
         LET new == (Len(calls[c]) + 1)..Len(calls'[c])
         IN /\ nframes'[c] = nframes[c] + Len(ChunkDecodes[i])
            /\ client'[c].messageCount
                 = (IF phase[c] = "tcp" THEN client[c].messageCount ELSE 0)
                   + Cardinality(Decoding(i))
            /\ \A j \in new : (calls'[c][j].seq - nframes[c]) \in Decoding(i)
            /\ \A k \in Decoding(i) :
                 \E j \in new : calls'[c][j].seq = nframes[c] + k
            /\ Len(written'[c]) - Len(written[c]) <= Cardinality(Decoding(i))
            /\ sock'[c] = sock[c]
            /\ (Decoding(i) = {} /\ phase[c] = "tcp") => client'[c] = client[c]]_vars

\* a buffer whose first frame fails and whose second decodes was processed
C13_Witness ==
  \E c \in Conns :
    /\ rx[c] = <<4>>
    /\ nframes[c] = 2
    /\ client[c].messageCount = 1
    /\ sock[c] = "open"

\* C14: dataManager.handleClientConnection is called at most once per session,
\* and exactly once as soon as the session has an imei; the handleMessage call
\* for the frame that triggered it is made after it in the log, and only once
\* it has returned.
C14_IdentifiedOnceBeforeMessage ==
  \A c \in Conns :
    LET ident == CallsOf(c, "handleClientConnection")
    IN /\ Cardinality(ident) <= 1
       /\ (client[c].imei # <<>>) <=> (ident # {})
       /\ \A j \in ident :
            \A m \in CallsOf(c, "handleMessage") :
              calls[c][m].seq = calls[c][j].seq =>
                /\ j < m
                /\ \A t \in tasks :
                     ~(t.h = c /\ t.seq = calls[c][j].seq /\ t.pc = "ident")

\* the identification of a session returned and the message notification of
\* the same frame was made
C14_Witness ==
  \E c \in Conns :
    \E j \in CallsOf(c, "handleClientConnection") :
      \E m \in CallsOf(c, "handleMessage") :
        calls[c][m].seq = calls[c][j].seq /\ client[c].messageCount = 2

\* C15: a failure of the collaborator is contained.  The step in which
\* handleClientConnection fails for a frame of a connection neither closes the
\* socket nor touches the registry; and every buffer a protocol connection
\* receives after such a failure is processed in full: its decodable frames
\* are counted in messageCount and forwarded to handleMessage, and the socket
\* stays as it was.
C15_CollaboratorFailureContained ==
  [][\A c \in Conns :
       /\ (failed'[c] /\ ~failed[c]) => (sock' = sock /\ clients' = clients)
       /\ \A i \in ChunkIds :
            (/\ failed[c] /\ phase[c] = "tcp"
             /\ rx'[c] = Append(rx[c], i) /\ Len(ChunkDecodes[i]) > 0) =>
              /\ nframes'[c] = nframes[c] + Len(ChunkDecodes[i])
              /\ client'[c].messageCount
                   = client[c].messageCount + Cardinality(Decoding(i))
              /\ \A k \in Decoding(i) :
                   \E j \in (Len(calls[c]) + 1)..Len(calls'[c]) :
                     /\ calls'[c][j].fn = "handleMessage"
                     /\ calls'[c][j].seq = nframes[c] + k
              /\ sock'[c] = sock[c]]_vars

\* C16: bytes received without a terminator are retained.  On a protocol
\* connection that has received the two segments of one heartbeat, in order,
\* the heartbeat has been decoded exactly once (messageCount 1, forwarded
\* once); after the first segment alone nothing has been decoded or counted.
C16_SplitFrameDecodedOnce ==
  \A c \in Conns :
    (phase[c] = "tcp" /\ Registered(c)) =>
      /\ (Len(rx[c]) = 1 /\ Chunks[rx[c][1]] = ChunkHbHead) =>
           (client[c].messageCount = 0 /\ nframes[c] = 0 /\ calls[c] = <<>>)
      /\ (/\ Len(rx[c]) = 2
          /\ Chunks[rx[c][1]] = ChunkHbHead
          /\ Chunks[rx[c][2]] = ChunkHbTail) =>
           /\ client[c].messageCount = 1
           /\ \E j \in 1..Len(calls[c]) : calls[c][j].seq = 1

\* positions of the terminators of a buffer, and its segments: the texts
\* between one terminator and the next
TermAt(b) == {i \in 1..Len(b) : b[i] = TAIL_CHAR}
NthTerm(b, k) == CHOOSE i \in TermAt(b) : Cardinality({j \in TermAt(b) : j <= i}) = k
SegmentOf(b, k) ==
  SubSeq(b, IF k = 1 THEN 1 ELSE NthTerm(b, k - 1) + 1, NthTerm(b, k) - 1)
NonBlank(b) == {k \in 1..Cardinality(TermAt(b)) : Trim(SegmentOf(b, k)) # <<>>}
Terminated(b) == b # <<>> /\ b[Len(b)] = TAIL_CHAR
\* extractMessages was called on a buffer that ends with a terminator
Extracted == output.fn = "extractMessages" /\ Terminated(input)

Parsed == output.fn = "parseMessage"

\* the comma-separated fields of a body, by the positions of its commas
CommaAt(b) == {i \in 1..Len(b) : b[i] = ","}
NthComma(b, k) == CHOOSE i \in CommaAt(b) : Cardinality({j \in CommaAt(b) : j <= i}) = k
FieldCount(b) == Cardinality(CommaAt(b)) + 1
FieldOf(b, k) ==
  SubSeq(b, IF k = 1 THEN 1 ELSE NthComma(b, k - 1) + 1,
            IF k = FieldCount(b) THEN Len(b) ELSE NthComma(b, k) - 1)
\* the text t starts with prefix p, and then its body: what lies between the
\* prefix and the last character
Begins(t, p) == Len(t) >= Len(p) /\ SubSeq(t, 1, Len(p)) = p
BodyOf(t, p) == SubSeq(t, Len(p) + 1, Len(t) - 1)
DecodedPrefixes == {PrefixACK, PrefixRESP, PrefixBUFF}

\* C18: parseMessage returns either a failure with an error or a success
\* whose frame has the six fields commandWord, fullProtocolVersion, uniqueId,
\* deviceName, sendTime and countNumber all non-empty.
C18_SuccessHasAllFields ==
  Parsed =>
    IF output.value.success
    THEN LET m == output.value.message
         IN /\ m.commandWord # <<>> /\ m.fullProtocolVersion # <<>>
            /\ m.uniqueId # <<>> /\ m.deviceName # <<>>
            /\ m.sendTime # <<>> /\ m.countNumber # <<>>
    ELSE output.value.error # ""

\* the text t is one parseMessage has to reject: no terminator at its end, or
\* a prefix that is none of +ACK:, +RESP:, +BUFF: (+SACK: included), or fewer
\* than 6 fields in its body
Rejectable(t) ==
  \/ ~Terminated(t)
  \/ \A p \in DecodedPrefixes : ~Begins(t, p)
  \/ \E p \in DecodedPrefixes : Begins(t, p) /\ FieldCount(BodyOf(t, p)) < 6

\* C19 as stated: parseMessage returns a failure for every rejectable text.
C19_RejectsAsWritten == (Parsed /\ Rejectable(input)) => ~output.value.success

\* C19 amended: parseMessage returns a failure for every text that is
\* rejectable once the whitespace around it is trimmed.
C19_RejectsAfterTrim == (Parsed /\ Rejectable(Trim(input))) => ~output.value.success

\* a terminated +SACK: text with six fields was rejected
C19_Witness ==
  /\ Parsed
  /\ Begins(input, PrefixSACK) /\ Terminated(input)
  /\ FieldCount(BodyOf(input, PrefixSACK)) = 6
  /\ ~output.value.success

\* C20: a Resp text with k >= 6 body fields decodes, with commandWord,
\* fullProtocolVersion, uniqueId and deviceName taken from fields 1 to 4 and
\* sendTime and countNumber from fields k-1 and k.
C20_RespAnchoredAtBothEnds ==
  (Parsed /\ Begins(input, PrefixRESP) /\ Terminated(input)
     /\ FieldCount(BodyOf(input, PrefixRESP)) >= 6) =>
    LET b == BodyOf(input, PrefixRESP)
        k == FieldCount(b)
    IN /\ output.value.success
       /\ output.value.message.commandWord = FieldOf(b, 1)
       /\ output.value.message.fullProtocolVersion = FieldOf(b, 2)
       /\ output.value.message.uniqueId = FieldOf(b, 3)
       /\ output.value.message.deviceName = FieldOf(b, 4)
       /\ output.value.message.sendTime = FieldOf(b, k - 1)
       /\ output.value.message.countNumber = FieldOf(b, k)

\* a Resp text with seven fields was decoded, and its fifth field is not its
\* sixth
C20_Witness ==
  /\ Parsed /\ Begins(input, PrefixRESP) /\ Terminated(input)
  /\ FieldCount(BodyOf(input, PrefixRESP)) = 7
  /\ FieldOf(BodyOf(input, PrefixRESP), 5) # FieldOf(BodyOf(input, PrefixRESP), 6)
  /\ output.value.success

\* the decode of the text with prefix q in place of its prefix p
DecodeAs(t, p, q) == parseMessage(q \o BodyOf(t, p) \o <<TAIL_CHAR>>)

\* two decode outcomes agree: both fail, or both succeed with the same
\* fields other than frameType and rawMessage and the same ack
SameOutcome(r1, r2) ==
  /\ r1.success = r2.success
  /\ r1.success =>
       /\ r1.message.commandWord = r2.message.commandWord
       /\ r1.message.fullProtocolVersion = r2.message.fullProtocolVersion
       /\ r1.message.uniqueId = r2.message.uniqueId
       /\ r1.message.deviceName = r2.message.deviceName
       /\ r1.message.sendTime = r2.message.sendTime
       /\ r1.message.countNumber = r2.message.countNumber
       /\ r1.needsAck = r2.needsAck
       /\ r1.ackMessage = r2.ackMessage

\* C21: for every body b, the decodes of +BUFF:b$ and of +RESP:b$ have the
\* same outcome: both fail, or both succeed with equal commandWord,
\* fullProtocolVersion, uniqueId, deviceName, sendTime, countNumber and ack
\* text; the Buff frame has frameType +BUFF and the +BUFF text as rawMessage,
\* the Resp frame frameType +RESP and the +RESP text.
C21_BuffDecodesAsResp ==
  /\ (Parsed /\ Begins(input, PrefixBUFF) /\ Terminated(input)) =>
       /\ SameOutcome(output.value, DecodeAs(input, PrefixBUFF, PrefixRESP))
       /\ output.value.success =>
            /\ output.value.message.frameType = FrameBUFF
            /\ output.value.message.rawMessage = input
  /\ (Parsed /\ Begins(input, PrefixRESP) /\ Terminated(input)) =>
       /\ SameOutcome(output.value, DecodeAs(input, PrefixRESP, PrefixBUFF))
       /\ output.value.success =>
            /\ output.value.message.frameType = FrameRESP
            /\ output.value.message.rawMessage = input

\* a Buff text with seven fields, the fifth not the sixth, was decoded
C21_Witness ==
  /\ Parsed /\ Begins(input, PrefixBUFF) /\ Terminated(input)
  /\ FieldCount(BodyOf(input, PrefixBUFF)) = 7
  /\ FieldOf(BodyOf(input, PrefixBUFF), 5) # FieldOf(BodyOf(input, PrefixBUFF), 6)
  /\ output.value.success
  /\ output.value.message.countNumber # <<>>

\* C22: for every text that parseMessage decodes, decoding the rawMessage of
\* the frame succeeds and gives the same result: a frame equal in every
\* field, frameType and rawMessage included, and the same ack.
C22_RedecodeRawMessage ==
  (Parsed /\ output.value.success) =>
    parseMessage(output.value.message.rawMessage) = output.value

\* a Buff text with whitespace around it was decoded: its rawMessage is not
\* the text
C22_Witness ==
  /\ Parsed /\ output.value.success
  /\ output.value.message.frameType = FrameBUFF
  /\ output.value.message.rawMessage # input
  /\ Len(input) = Len(output.value.message.rawMessage) + 3

\* the sequence number an ack echoes: the one of the frame, 0000 for none
SeqOrZeros(m) ==
  IF m.countNumber = <<>> THEN <<"0", "0", "0", "0">> ELSE m.countNumber

\* the first six characters of a text
FirstSix(v) == SubSeq(v, 1, IF Len(v) < 6 THEN Len(v) ELSE 6)

\* C23: for every decoded frame whose commandWord is GTHBD, whatever its
\* frameType, an ack is required and its text is
\* +SACK:GTHBD,<first 6 characters of fullProtocolVersion>,<countNumber, or
\* 0000 when it is empty>$.
C23_HeartbeatAckText ==
  (Parsed /\ output.value.success /\ output.value.message.commandWord = GTHBD) =>
    /\ output.value.needsAck
    /\ output.value.ackMessage =
         PrefixSACK \o GTHBD \o <<",">>
           \o FirstSix(output.value.message.fullProtocolVersion) \o <<",">>
           \o SeqOrZeros(output.value.message) \o <<"$">>

\* C24: for every decoded Resp or Buff frame whose commandWord is not GTHBD
\* an ack is required and its text is exactly +SACK:<countNumber>$, with 0000
\* for an empty countNumber: neither the command word nor the version is in it.
C24_ReportAckText ==
  (/\ Parsed /\ output.value.success
   /\ output.value.message.frameType \in {FrameRESP, FrameBUFF}
   /\ output.value.message.commandWord # GTHBD) =>
    /\ output.value.needsAck
    /\ output.value.ackMessage =
         PrefixSACK \o SeqOrZeros(output.value.message) \o <<"$">>

\* a Buff frame with a command word, a version and no sequence number was
\* decoded, and a Resp frame with a sequence number is covered by the inputs
C24_Witness ==
  /\ Parsed /\ output.value.success
  /\ output.value.message.frameType = FrameBUFF
  /\ output.value.message.commandWord = Version8
  /\ output.value.message.fullProtocolVersion = Version8
  /\ output.value.message.countNumber = <<>>
  /\ output.value.ackMessage = PrefixSACK \o <<"0", "0", "0", "0", "$">>

\* the processMessage call t, suspended in handleMessage, runs to its end in
\* this step
Completes(t) == t \in tasks /\ t.pc = "msg" /\ t \notin tasks'

\* an Ack frame that is not a heartbeat
PlainAck(m) == m.frameType = FrameACK /\ m.commandWord # GTHBD

\* the chunks all of whose frames decode into such frames
PlainAckIds ==
  {i \in ChunkIds :
     /\ isMessageComplete(Trim(Chunks[i]))
     /\ \A k \in 1..Len(extractMessages(Trim(Chunks[i]))) :
          LET r == parseMessage(extractMessages(Trim(Chunks[i]))[k])
          IN r.success /\ PlainAck(r.message)}

\* C25: no ack is written in response to an Ack frame whose command word is
\* not GTHBD: neither the step that receives a chunk of such frames nor the
\* step in which the processing of such a frame ends writes anything to any
\* connection.
C25_NoAckForPlainAck ==
  [][/\ \A c \in Conns : \A i \in PlainAckIds :
          rx'[c] = Append(rx[c], i) => written' = written
     /\ \A t \in tasks :
          (Completes(t) /\ PlainAck(t.res.message)) => written' = written]_vars

\* with acks enabled, a plain Ack frame was processed to its end on an open
\* registered connection, and nothing was written to it
C25_Witness ==
  \E c \in Conns :
    /\ enableSack /\ sock[c] = "open" /\ Registered(c)
    /\ rx[c] # <<>> /\ \A k \in 1..Len(rx[c]) : rx[c][k] \in PlainAckIds
    /\ \E j \in CallsOf(c, "handleMessage") : calls[c][j].seq = 1
    /\ tasks = {}
    /\ written[c] = <<>>

\* C26: the step in which the processing of a decoded frame ends on a session
\* that is in the registry sets the lastHeartbeat of the session to the time
\* of the step when the command word of the frame is GTHBD, whatever the
\* frameType (Ack, Resp or Buff), and leaves it unchanged when it is not.
C26_HeartbeatOfAnyKind ==
  [][\A t \in tasks :
       (Completes(t) /\ clients[t.id] = t.cref) =>
         IF t.res.message.commandWord = GTHBD
         THEN /\ client'[t.cref].lastHeartbeat = newDate[t.cref]
              /\ client'[t.cref].lastHeartbeat > client[t.cref].lastHeartbeat
         ELSE client'[t.cref].lastHeartbeat = client[t.cref].lastHeartbeat]_vars

\* what the sockets have been sent once the ack of the frame of t is written
\* to the connection registered under its clientId, if that socket is writable
AckWritten(t) ==
  IF clients[t.id] # NoConn /\ sock[clients[t.id]] = "open"
  THEN [written EXCEPT ![clients[t.id]] =
          Append(@, [kind |-> "sack", text |-> t.res.ackMessage])]
  ELSE written

Silent(c) == sock[c] # "none" /\ phase[c] = "initial" /\ rx[c] = <<>>

\* C28: a connection that sends no data is destroyed by the 5 s timer of
\* handleConnection: once the timer has fired its socket is destroyed or
\* closed; and as long as it has sent nothing no session is registered for it
\* and its handlers have emitted no disconnect notification.
C28_SilentConnectionDestroyed ==
  \A c \in Conns :
    Silent(c) =>
      /\ ~preTimer[c] => sock[c] \in {"destroyed", "closed"}
      /\ ~client[c].exists
      /\ \A id \in ClientIds : clients[id] # c
      /\ CallsOf(c, "handleClientDisconnection") = {}

\* C29: no connection-level event ends the server process: every socket error
\* event, in whatever state of the connection (unclassified, health check,
\* registered, refused at capacity), finds an error listener, and no
\* exception escapes a frame handler.
C29_NoEventEndsTheProcess == ~crashed

\* the first frame of connection c was processed to its end while the
\* connection is registered and its socket writable
FirstFrameDone(c) ==
  /\ rx[c] # <<>> /\ Registered(c) /\ sock[c] = "open"
  /\ \E j \in CallsOf(c, "handleMessage") : calls[c][j].seq = 1
  /\ \A t \in tasks : ~(t.h = c /\ t.seq = 1)

Answered(c) == \E k \in 1..Len(written[c]) : written[c][k].kind = "sack"

\* C30: with ENABLE_SACK not set the server runs with SACK replies enabled
\* (the documented default is true): a heartbeat decoded and processed on a
\* registered connection whose socket is writable has been answered with a
\* SACK.
C30_SackOnByDefault ==
  env.ENABLE_SACK = Unset =>
    \A c \in Conns : (FirstFrameDone(c) /\ rx[c][1] = 1) => Answered(c)

\* C31: the sequence number the simulator places in each frame is exactly 4
\* hexadecimal digits and wraps modulo 65536: the frame sent after the one
\* numbered FFFF is numbered 0000.
C31_FourHexDigitsWrapping ==
  \A k \in 1..Len(simulator.sent) :
    /\ Len(simulator.sent[k].count) = 4
    /\ \A i \in 1..Len(simulator.sent[k].count) :
         \E d \in 1..16 : simulator.sent[k].count[i] = HexDigits[d]
    /\ (k > 1 /\ simulator.sent[k - 1].count = <<"F", "F", "F", "F">>) =>
         simulator.sent[k].count = <<"0", "0", "0", "0">>

\* the teardown of connection c has begun: its timeout callback destroyed the
\* socket, or its close or error listeners have run
TeardownBegun(c) == sock[c] \in {"destroyed", "closed"}

\* C32: the isAlive flag of a session is true from its creation until its
\* teardown begins, and false from the moment the teardown (close, error or
\* timeout handling) has begun.
C32_AliveUntilTeardown ==
  \A c \in Conns :
    client[c].exists => (client[c].isAlive <=> ~TeardownBegun(c))

\* connection c is classified: a health check, or a protocol connection
\* whose session is in the registry
Classified(c) == isHttpConnection[c] \/ (phase[c] = "tcp" /\ Registered(c))

NewAcks(c) ==
  {k \in (Len(written[c]) + 1)..Len(written'[c]) : written'[c][k].kind = "sack"}

\* C34: an ack is written to a socket only when enableSack is true, the
\* decode result of the frame requires an ack and has an ack text, the
\* session of the connection the frame arrived on is still in the registry
\* and that socket is writable: every step that writes an ack to a connection
\* ends the processing of such a frame of that connection.  With enableSack
\* false no SACK is ever written.
C34_AckOnlyWhenDue ==
  [][\A c \in Conns :
       NewAcks(c) # {} =>
         /\ enableSack
         /\ \E t \in tasks :
              /\ Completes(t)
              /\ t.res.needsAck /\ t.res.ackMessage # <<>>
              /\ \A k \in NewAcks(c) : written'[c][k].text = t.res.ackMessage
              /\ t.h = c
              /\ clients[peer[c]] = c
              /\ sock[c] = "open"]_vars

\* C35: removal is idempotent.  handleClientDisconnect and handleClientError
\* called for a clientId that is not in the registry leave the registry as it
\* is, emit no disconnect notification and raise no error: so does the call
\* itself in every state, so do the second handleClientError and the
\* handleClientDisconnect that follow the first handleClientError of a socket
\* error, and so does the close of a protocol connection whose session was
\* removed before.
C35_RemovalIdempotent ==
  [][\A c \in Conns :
       /\ \A id \in ClientIds :
            clients[id] = NoConn =>
              /\ handleClientDisconnect(Pack, c, id, 1) = Pack
              /\ handleClientError(Pack, id) = Pack
       /\ (ErrorClose(c) /\ phase[c] = "tcp") =>
            /\ clients' = [clients EXCEPT ![peer[c]] = NoConn]
            /\ calls' = calls /\ discs' = discs /\ ~crashed'
       /\ (Close(c) /\ phase[c] = "tcp" /\ clients[peer[c]] = NoConn) =>
            /\ clients' = clients
            /\ calls' = calls /\ discs' = discs /\ ~crashed']_vars

\* the socket of a registered protocol connection had an error: the session
\* was removed by the first error listener and the calls that followed for
\* the absent clientId emitted no notification
C35_Witness ==
  \E c \in Conns :
    /\ phase[c] = "tcp" /\ sock[c] = "closed" /\ client[c].exists
    /\ clients[peer[c]] = NoConn
    /\ CallsOf(c, "handleClientDisconnection") = {}
    /\ discs = {}

\* the frame texts of the chunks received on a connection, in arrival order
RECURSIVE FramesOf(_)
FramesOf(chunkIds) ==
  IF chunkIds = <<>> THEN <<>>
  ELSE (IF isMessageComplete(Trim(Chunks[Head(chunkIds)]))
        THEN extractMessages(Trim(Chunks[Head(chunkIds)]))
        ELSE <<>>) \o FramesOf(Tail(chunkIds))

\* the frame text f is acknowledged with the text a
AckedBy(f, a) ==
  LET r == parseMessage(f) IN r.success /\ r.needsAck /\ r.ackMessage = a

\* C36: acks are written to a connection in the arrival order of the frames
\* that caused them: of two frames of a connection with different acks, both
\* written, the ack of the earlier frame is written before the ack of the
\* later one, also when the earlier frame triggers the identification.
C36_AcksInArrivalOrder ==
  \A c \in Conns :
    LET frames == FramesOf(rx[c])
    IN \A i, j \in 1..Len(written[c]) :
         (i < j /\ written[c][i].kind = "sack" /\ written[c][j].kind = "sack"
            /\ written[c][i].text # written[c][j].text) =>
           ~\E p, q \in 1..Len(frames) :
              /\ p < q
              /\ AckedBy(frames[p], written[c][j].text)
              /\ AckedBy(frames[q], written[c][i].text)

\* C37: the disconnect notification is the last collaborator call made for a
\* connection: in the log of the collaborator calls of a connection, no
\* handleClientConnection and no handleMessage comes after a
\* handleClientDisconnection.
C37_DisconnectionIsLastCall ==
  \A c \in Conns :
    \A i \in CallsOf(c, "handleClientDisconnection") :
      \A j \in 1..Len(calls[c]) :
        i < j => calls[c][j].fn = "handleClientDisconnection"

\* connection c was torn down and none of its handlers is pending
TornDown(c) ==
  /\ client[c].exists /\ sock[c] = "closed"
  /\ \A t \in tasks : t.h # c
  /\ \A d \in discs : d.h # c

\* C38: once a connection has been torn down and all of its pending handlers
\* have completed, DataManager.activeConnections holds no row of the
\* connection, however handleClientConnection and handleClientDisconnection
\* interleave.
C38_NoRowAfterTeardown ==
  \A c \in Conns : TornDown(c) => activeConnections[peer[c]] # c

\* C39: the session of a protocol connection stays in the registry for as
\* long as the socket of the connection is open: a step that leaves the
\* socket open leaves the session registered, and a step that is not the end
\* of the processing of one of its own frames changes none of its fields and
\* writes nothing to its socket.
C39_SessionStaysWhileOpen ==
  [][\A c \in Conns :
       (phase[c] = "tcp" /\ Registered(c) /\ sock[c] = "open" /\ sock'[c] = "open") =>
         /\ clients'[peer[c]] = c
         /\ (rx'[c] = rx[c] /\ \A t \in tasks : t.h = c => t \in tasks') =>
              /\ client'[c] = client[c]
              /\ written'[c] = written[c]]_vars

====
